---- MODULE Spec2Model ----
(***************************************************************************)
(* A model of scripts/photometry.py (pychimera): the function process(),   *)
(* which drives the DAOPHOT aperture photometry of CHIMERA image cubes     *)
(* frame by frame, and the file system it reads and writes.                *)
(*                                                                         *)
(* Strings (paths, file contents, specifiers) are sequences of one         *)
(* character strings, so that Python's str operations (split, replace,     *)
(* readlines, len, +) are computed as Python computes them.                *)
(* Floating point values are held in tenths (30.7 is 307); MAG and FERR,   *)
(* which are pure float arithmetic on a record already built and raise     *)
(* nothing (numpy warns, and warnings are switched off), are left out of   *)
(* the record.                                                             *)
(***************************************************************************)
EXTENDS Integers, Sequences, FiniteSets, TLC

VARIABLES
    infile,           \* argument: image specifier
    coords,           \* argument: path of the coordinate file
    output,           \* argument: output base name ("" when not given)
    debug,            \* argument: diagnostic mode
    aperture,         \* argument: explicit aperture radius, <<>> for None
    plot_flag,        \* module global: matplotlib could be imported
    disk,             \* the file system: path -> [kind, data]
    pc,               \* position in process()
    err,              \* the exception that ended the run, "" for none
    image_cubes,      \* process local
    tmp_coords,       \* process local
    i,                \* index of the cube loop (0-based, as in the code)
    j,                \* index of the frame loop (0-based)
    ap,               \* the Aperphot object of the current cube
    img,              \* the image cube read by fitsread
    imghdr,           \* header of the first cube
    nom_aper,         \* nominal aperture radius (tenths of a pixel)
    phot_data,        \* record array of the current cube
    total_phot_data,  \* list of the per-cube record arrays
    img_sec,          \* list of cutouts
    engine_in,        \* history: what each daophot call read from its coordinate file
    engine_out,       \* history: [cube, frame, lines] each daophot call produced
    coord_writes      \* history: how many times the scratch file was written since its copy

vars == <<infile, coords, output, debug, aperture, plot_flag, disk, pc, err,
          image_cubes, tmp_coords, i, j, ap, img, imghdr, nom_aper, phot_data,
          total_phot_data, img_sec, engine_in, engine_out, coord_writes>>

-----------------------------------------------------------------------------
(* Bounds of the model *)

\* Frames of the first image cube on disk (the second and third hold one).
MaxFrames == 2
\* Width and height, in pixels, of every frame of the cubes on disk.
ImgSize == 100

-----------------------------------------------------------------------------
(* Python's str operations, on sequences of characters *)

StartsWith(s, pre) ==
    Len(pre) <= Len(s) /\ SubSeq(s, 1, Len(pre)) = pre

EndsWith(s, suf) ==
    Len(suf) <= Len(s) /\ SubSeq(s, Len(s) - Len(suf) + 1, Len(s)) = suf

\* old occurs in s at position k
OccursAt(s, old, k) ==
    k + Len(old) - 1 <= Len(s) /\ SubSeq(s, k, k + Len(old) - 1) = old

RECURSIVE ReplaceFrom(_, _, _, _)
ReplaceFrom(s, old, new, k) ==
    IF k > Len(s) THEN <<>>
    ELSE IF OccursAt(s, old, k)
         THEN new \o ReplaceFrom(s, old, new, k + Len(old))
         ELSE <<s[k]>> \o ReplaceFrom(s, old, new, k + 1)

\* s.replace(old, new), old not empty
Replace(s, old, new) == ReplaceFrom(s, old, new, 1)

RECURSIVE SplitFrom(_, _, _, _)
SplitFrom(s, sep, k, cur) ==
    IF k > Len(s) THEN <<cur>>
    ELSE IF s[k] = sep
         THEN <<cur>> \o SplitFrom(s, sep, k + 1, <<>>)
         ELSE SplitFrom(s, sep, k + 1, Append(cur, s[k]))

\* s.split(sep), sep one character
Split(s, sep) == SplitFrom(s, sep, 1, <<>>)

RECURSIVE ReadLinesFrom(_, _, _)
ReadLinesFrom(s, k, cur) ==
    IF k > Len(s) THEN (IF cur = <<>> THEN <<>> ELSE <<cur>>)
    ELSE IF s[k] = "\n"
         THEN <<Append(cur, "\n")>> \o ReadLinesFrom(s, k + 1, <<>>)
         ELSE ReadLinesFrom(s, k + 1, Append(cur, s[k]))

\* fd.readlines(): the lines of a text, each with its line terminator
ReadLines(s) == ReadLinesFrom(s, 1, <<>>)

\* the character of the decimal digit n
Digit(n) == <<"0", "1", "2", "3", "4", "5", "6", "7", "8", "9">>[n + 1]

RECURSIVE Str(_)
\* str(n), n >= 0
Str(n) == IF n < 10 THEN <<Digit(n)>> ELSE Str(n \div 10) \o <<Digit(n % 10)>>

\* position of the last "/" of p, 0 when there is none
LastSlash(p) ==
    LET ks == {k \in 1..Len(p) : p[k] = "/"}
    IN  IF ks = {} THEN 0 ELSE CHOOSE k \in ks : \A m \in ks : m <= k

\* os.path.split(p): <<head, tail>> (paths with at most single slashes)
PathSplit(p) ==
    LET k == LastSlash(p)
    IN  IF k = 0 THEN <<<<>>, p>>
        ELSE <<IF k = 1 THEN <<"/">> ELSE SubSeq(p, 1, k - 1), SubSeq(p, k + 1, Len(p))>>

\* os.path.join(a, b), b relative
PathJoin(a, b) ==
    IF a = <<>> THEN b
    ELSE IF a[Len(a)] = "/" THEN a \o b ELSE a \o <<"/">> \o b

-----------------------------------------------------------------------------
(* The string literals of the program *)

ExtFits == <<".", "f", "i", "t", "s">>
ExtTmp == <<".", "t", "m", "p">>
ExtPhot1 == <<".", "p", "h", "o", "t", ".", "1">>
ExtNpy == <<".", "n", "p", "y">>
ExtPng == <<".", "p", "n", "g">>
SufPhotNpy == <<"_", "p", "h", "o", "t", ".", "n", "p", "y">>
SufLcPng == <<"_", "l", "c", ".", "p", "n", "g">>
SufTotal == <<"_", "t", "o", "t", "a", "l", ".", "p", "h", "o", "t", ".", "n", "p", "y">>
SufObj == <<"_", "o", "b", "j", ".", "f", "i", "t", "s">>

-----------------------------------------------------------------------------
(* Python's float() and int() on a token, values in tenths *)

IsDigitCh(c) == c \in {"0", "1", "2", "3", "4", "5", "6", "7", "8", "9"}

DigitVal(c) == CHOOSE n \in 0..9 : Digit(n) = c

AllDigits(ds) == ds # <<>> /\ \A k \in 1..Len(ds) : IsDigitCh(ds[k])

RECURSIVE NatOf(_)
NatOf(ds) ==
    IF ds = <<>> THEN 0
    ELSE NatOf(SubSeq(ds, 1, Len(ds) - 1)) * 10 + DigitVal(ds[Len(ds)])

Unsigned(t) == IF t # <<>> /\ t[1] \in {"-", "+"} THEN Tail(t) ELSE t

Sign(t) == IF t # <<>> /\ t[1] = "-" THEN -1 ELSE 1

\* int(t) does not raise ValueError
IsIntLit(t) == AllDigits(Unsigned(t))

\* int(t)
IntOf(t) == Sign(t) * NatOf(Unsigned(t))

\* float(t) does not raise ValueError: an integer literal, or digits "." digit
\* (the engine's tokens of the model carry at most one decimal)
IsFloatLit(t) ==
    LET u == Unsigned(t)
    IN  \/ AllDigits(u)
        \/ /\ Len(u) >= 3
           /\ u[Len(u) - 1] = "."
           /\ AllDigits(SubSeq(u, 1, Len(u) - 2))
           /\ IsDigitCh(u[Len(u)])

\* float(t), in tenths
FloatOf(t) ==
    LET u == Unsigned(t)
    IN  IF AllDigits(u) THEN Sign(t) * NatOf(u) * 10
        ELSE Sign(t) * (NatOf(SubSeq(u, 1, Len(u) - 2)) * 10 + DigitVal(u[Len(u)]))

\* int(x) of a float x held in tenths: truncation towards zero
Trunc(v) == IF v >= 0 THEN v \div 10 ELSE -((-v) \div 10)

-----------------------------------------------------------------------------
(* The files the run finds on disk, and the arguments it is started with *)

NameA == <<"a">> \o ExtFits
NameB == <<"b">> \o ExtFits
NameK == <<"k">>
NameMissing == <<"m">> \o ExtFits
NameList == <<"L">>
NameNoList == <<"M">>
NL == <<"\n">>

\* header of an image cube: frames, start time (s), integration time (s),
\* gain, frame width and height
CubeHeader(n, t0) ==
    [nframes |-> n, start |-> t0, kintime |-> 2, epadu |-> 2,
     width |-> ImgSize, height |-> ImgSize]

\* the user's coordinate file: one line, the initial centroid guess
TokX0 == <<"3", "0", ".", "0">>
TokY0 == <<"4", "0", ".", "0">>
InitialCoords == [kind |-> "coords", data |-> <<<<TokX0, TokY0>>>>]

\* image specifiers and, for an "@" specifier, the text of the list file
Scenarios ==
    { [infile |-> NameA, list |-> <<>>],
      [infile |-> NameA \o <<",">> \o NameB, list |-> <<>>],
      [infile |-> NameB \o <<",">> \o NameMissing, list |-> <<>>],
      [infile |-> <<"@">> \o NameNoList, list |-> <<>>],
      [infile |-> <<"@">> \o NameList, list |-> NameA \o NL \o NameB \o NL],
      [infile |-> <<"@">> \o NameList, list |-> NameB \o NL \o NL \o NameA],
      [infile |-> <<"@">> \o NameList, list |-> NameB \o NL \o NameA \o NL \o NameMissing \o NL],
      [infile |-> <<"@">> \o NameList, list |-> NameMissing \o NL \o NameA \o NL],
      [infile |-> <<"@">> \o NameList, list |-> NL],
      [infile |-> <<"@">> \o NameList, list |-> NameA \o NL \o NameK] }

\* coordinate file names and output base names
CoordsAndOutput ==
    { [coords |-> <<"c">>, output |-> <<>>, present |-> TRUE],
      [coords |-> <<"c">>, output |-> <<"o">>, present |-> TRUE],
      [coords |-> <<"s">> \o ExtNpy, output |-> <<"s">>, present |-> TRUE],
      [coords |-> <<"x">>, output |-> <<>>, present |-> FALSE] }

\* explicit aperture radius: None (the empty string here) or "5"
Apertures == {<<>>, <<"5">>}

\* a scratch file an earlier run left behind
StaleCoords == [kind |-> "coords", data |-> <<<<<<"9", ".", "9">>, <<"9", ".", "9">>>>>>]

\* the disk at the start of the run; stale: an earlier run's scratch file is
\* still there
InitialDisk(sc, co, stale) ==
    LET cubes == (NameA :> [kind |-> "cube", data |-> CubeHeader(MaxFrames, 0)])
              @@ (NameB :> [kind |-> "cube", data |-> CubeHeader(1, 100)])
              @@ (NameK :> [kind |-> "cube", data |-> CubeHeader(1, 200)])
        lst == IF sc.infile[1] = "@" /\ Tail(sc.infile) = NameList
               THEN (NameList :> [kind |-> "list", data |-> sc.list])
               ELSE <<>>
        crd == IF co.present THEN (co.coords :> InitialCoords) ELSE <<>>
        old == IF stale THEN (co.coords \o ExtTmp :> StaleCoords) ELSE <<>>
    IN  cubes @@ lst @@ crd @@ old

Exists(d, p) == p \in DOMAIN d

\* d without the paths of ps
Remove(d, ps) == [p \in (DOMAIN d) \ ps |-> d[p]]

\* d with p (over)written
Write(d, p, c) == (p :> c) @@ d

-----------------------------------------------------------------------------
(* The photometry engine (IRAF/DAOPHOT through pyraf) and the chimera      *)
(* package, as process() uses them                                         *)

\* the columns of a DAOPHOT phot file that process() asks for
Fields ==
    <<"XCEN", "YCEN", "CIER", "MSKY", "STDEV", "NSKY", "SIER", "SUM", "AREA",
      "FLUX", "MERR", "PIER">>

CenFields == <<"XCEN", "YCEN">>

TokIndef == <<"I", "N", "D", "E", "F">>
Tok0 == <<"0">>

\* one object's row of a phot file
PhotRow(x, y, flux, merr) ==
    [XCEN |-> x, YCEN |-> y, CIER |-> Tok0, MSKY |-> <<"5", ".", "0">>,
     STDEV |-> <<"1", ".", "0">>, NSKY |-> <<"9", "0">>, SIER |-> Tok0,
     SUM |-> <<"9", "0", "0", ".", "0">>, AREA |-> <<"7", "8", ".", "5">>,
     FLUX |-> flux, MERR |-> merr, PIER |-> Tok0]

TokFlux == <<"5", "0", "0", ".", "0">>

\* the line pdump prints ahead of the measured object's line
LeadRow == PhotRow(<<"1", ".", "0">>, <<"1", ".", "0">>, TokFlux, <<"0", ".", "1">>)

\* what a call of the engine can leave in its phot file: the measured object
\* well inside the frame, drifted with an undefined magnitude error, close to
\* the left edge with a magnitude error of -10, with an undefined flux, and a
\* file of a single line
EngineOutputs ==
    { <<LeadRow, PhotRow(<<"3", "0", ".", "7">>, <<"4", "0", ".", "2">>, TokFlux, <<"0", ".", "1">>)>>,
      <<LeadRow, PhotRow(<<"3", "1", ".", "4">>, <<"4", "0", ".", "9">>, TokFlux, TokIndef)>>,
      <<LeadRow, PhotRow(<<"1", "0", ".", "2">>, <<"4", "0", ".", "2">>, TokFlux, <<"-", "1", "0">>)>>,
      <<LeadRow, PhotRow(<<"3", "0", ".", "7">>, <<"4", "0", ".", "2">>, TokIndef, <<"0", ".", "1">>)>>,
      <<PhotRow(<<"3", "0", ".", "7">>, <<"4", "0", ".", "2">>, TokFlux, <<"0", ".", "1">>)>> }

\* iraf.pdump(infile, keywords, "yes", Stdout = 1): one line per row of the
\* phot file, a line held as the sequence of its whitespace separated tokens
pdump(d, f, keywords) ==
    [r \in 1..Len(d[f].data) |->
        [c \in 1..Len(keywords) |-> d[f].data[r][keywords[c]]]]

\* chimera.Aperphot(sci_file, coords): the cube's header values
Aperphot(d, sci_file) ==
    [sci_file |-> sci_file, nframes |-> d[sci_file].data.nframes,
     kintime |-> d[sci_file].data.kintime, epadu |-> d[sci_file].data.epadu,
     start |-> d[sci_file].data.start]

\* chimera.fitsread(sci_file): the pixels, known by their cube and its shape
fitsread(d, sci_file) ==
    [name |-> sci_file, nframes |-> d[sci_file].data.nframes,
     height |-> d[sci_file].data.height, width |-> d[sci_file].data.width]

\* ap.daocog(): the curve of growth radius, in tenths
daocog == 70

\* ap.addtime(secs).isoformat(): the cube's start time plus secs
addtime(a, secs) == a.start + secs

-----------------------------------------------------------------------------
(* process(): its pure parts *)

LongLine(line) == Len(line) > 1

\* lines 160-164: the cube names of a list file's text
ListCubes(text) ==
    LET kept == SelectSeq(ReadLines(text), LongLine)
    IN  [k \in 1..Len(kept) |-> Replace(kept[k], NL, <<>>)]

\* line 176
TmpCoords(c) == c \o ExtTmp

\* line 230
PhotOutfile(sci_file, n) == Replace(sci_file, ExtFits, <<"_">> \o Str(n) \o ExtPhot1)

\* dump(infile, keywords) does not raise IndexError
DumpOk(d, f) == Len(d[f].data) >= 2

\* dump() returning the first line pdump prints instead of the second
dumpFirstLine(d, f, keywords) == pdump(d, f, keywords)[1]

\* dump(infile, keywords): lines 63-65, indata[1]
dump(d, f, keywords) == pdump(d, f, keywords)[2]

\* token k (1-based) of the tokens t is there and converts: lines 239-255
TokenOk(t, k) ==
    /\ k <= Len(t)
    /\ IF k \in {3, 6, 7, 12} THEN IsIntLit(t[k])
       ELSE IF k = 11 THEN (t[k] = TokIndef \/ IsFloatLit(t[k]))
       ELSE IsFloatLit(t[k])

\* lines 239-255 raise nothing on the tokens t
ParseOk(t) == \A k \in 1..12 : TokenOk(t, k)

\* the first token whose conversion raises, 13 when none does
FirstBad(t) ==
    IF ParseOk(t) THEN 13
    ELSE CHOOSE k \in 1..12 : ~TokenOk(t, k) /\ \A m \in 1..(k - 1) : TokenOk(t, m)

\* lines 251-254 with the sentinel -1 written for -10
MerrOfOtherSentinel(tok) == IF tok = TokIndef THEN -1 * 10 ELSE FloatOf(tok)

\* lines 251-254, in tenths
MerrOf(tok) == IF tok = TokIndef THEN -10 * 10 ELSE FloatOf(tok)

\* lines 238-255 up to the conversion of token m, which raises (m = 13: none
\* does): the fields of frame n's record assigned so far, the others as
\* np.zeros left them
PhotRecordUpTo(t, a, n, m) ==
    [DATETIME |-> addtime(a, n * a.kintime),
     XCEN |-> IF 1 < m THEN FloatOf(t[1]) ELSE 0,
     YCEN |-> IF 2 < m THEN FloatOf(t[2]) ELSE 0,
     CIER |-> IF 3 < m THEN IntOf(t[3]) ELSE 0,
     MSKY |-> IF 4 < m THEN FloatOf(t[4]) ELSE 0,
     STDEV |-> IF 5 < m THEN FloatOf(t[5]) ELSE 0,
     NSKY |-> IF 6 < m THEN IntOf(t[6]) ELSE 0,
     SIER |-> IF 7 < m THEN IntOf(t[7]) ELSE 0,
     SUM |-> IF 8 < m THEN FloatOf(t[8]) ELSE 0,
     AREA |-> IF 9 < m THEN FloatOf(t[9]) ELSE 0,
     FLUX_ADU |-> IF 10 < m THEN FloatOf(t[10]) ELSE 0,
     FLUX_ELEC |-> IF 10 < m THEN FloatOf(t[10]) * a.epadu ELSE 0,
     MERR |-> IF 11 < m THEN MerrOf(t[11]) ELSE 0,
     PIER |-> IF 12 < m THEN IntOf(t[12]) ELSE 0]

\* lines 238-255: the record of frame n from the tokens t
PhotRecord(t, a, n) == PhotRecordUpTo(t, a, n, 13)

\* np.zeros([n], dtype): n records of zeros
ZeroRecord ==
    [DATETIME |-> 0, XCEN |-> 0, YCEN |-> 0, CIER |-> 0, MSKY |-> 0, STDEV |-> 0,
     NSKY |-> 0, SIER |-> 0, SUM |-> 0, AREA |-> 0, FLUX_ADU |-> 0,
     FLUX_ELEC |-> 0, MERR |-> 0, PIER |-> 0]

Zeros(n) == [k \in 1..n |-> ZeroRecord]

\* a bound of a Python slice on an axis of n elements
SliceBound(b, n) ==
    IF b < 0 THEN (IF b + n < 0 THEN 0 ELSE b + n)
    ELSE IF b > n THEN n ELSE b

\* the indices lo:hi selects on an axis of n elements, as <<first, past>>
PySlice(lo, hi, n) ==
    LET a == SliceBound(lo, n)
        b == SliceBound(hi, n)
    IN  <<a, IF b < a THEN a ELSE b>>

\* half the side of the image section saved for each frame (lines 262-263)
HalfWidth == 25

\* lines 262-265: img[n, ymin:ymax, xmin:xmax], the pixels known by their
\* cube, frame and index ranges
Cutout(im, rec, n) ==
    LET xmin == Trunc(rec.XCEN) - HalfWidth
        xmax == Trunc(rec.XCEN) + HalfWidth
        ymin == Trunc(rec.YCEN) - HalfWidth
        ymax == Trunc(rec.YCEN) + HalfWidth
    IN  [name |-> im.name, frame |-> n,
         rows |-> PySlice(ymin, ymax, im.height),
         cols |-> PySlice(xmin, xmax, im.width)]

\* lines 279-282
NpyOutfile(out, c) == IF out # <<>> THEN out \o ExtNpy ELSE c \o SufPhotNpy

\* lines 293-296
PltOutfile(out, c) == IF out # <<>> THEN out \o ExtPng ELSE c \o SufLcPng

\* line 307
TotalOutfile(c) == c \o SufTotal

\* line 313
ObjOutfile(c) == c \o SufObj

\* the paths the template fpath/*.phot.1 of line 300 matches
PhotFiles(d, fpath) ==
    LET pre == PathJoin(fpath, <<>>)
    IN  {p \in DOMAIN d :
            /\ StartsWith(p, pre)
            /\ EndsWith(p, ExtPhot1)
            /\ Len(p) >= Len(pre) + Len(ExtPhot1)
            /\ \A k \in (Len(pre) + 1)..Len(p) : p[k] # "/"}

\* line 269 inserting the cube's array at the head of the list
AppendCubeFront(total, phot) == <<phot>> \o total

\* line 269
AppendCube(total, phot) == Append(total, phot)

RECURSIVE Concatenate(_)
\* np.concatenate(arrays), line 304
Concatenate(arrays) ==
    IF arrays = <<>> THEN <<>> ELSE Head(arrays) \o Concatenate(Tail(arrays))

\* lines 284-287 and 291-297: the diagnostic files of one cube
SaveDebug(d, out, c, phot, a, plots) ==
    LET d1 == Write(Remove(d, {NpyOutfile(out, c)}), NpyOutfile(out, c),
                    [kind |-> "npy", data |-> phot])
    IN  IF plots
        THEN Write(d1, PltOutfile(out, c),
                   [kind |-> "png", data |-> [nframes |-> a.nframes, exptime |-> a.kintime]])
        ELSE d1

\* lines 304-321: the files of the end of the run
SaveTotal(d, c, total, secs, hdr, tmp) ==
    LET d1 == Write(d, TotalOutfile(c), [kind |-> "npy", data |-> Concatenate(total)])
        d2 == Write(Remove(d1, {ObjOutfile(c)}), ObjOutfile(c),
                    [kind |-> "fits", data |-> [pixels |-> secs, header |-> hdr]])
    IN  Remove(d2, {tmp})

-----------------------------------------------------------------------------
(* process(): the state machine *)

args == <<infile, coords, output, debug, aperture, plot_flag>>
cube_locals == <<ap, img, imghdr, nom_aper>>
history == <<engine_in, engine_out, coord_writes>>

NoAp == [sci_file |-> <<>>, nframes |-> 0, kintime |-> 0, epadu |-> 0, start |-> 0]
NoImg == [name |-> <<>>, nframes |-> 0, height |-> 0, width |-> 0]
NoHdr == CubeHeader(0, 0)

Init ==
    /\ \E sc \in Scenarios, co \in CoordsAndOutput, stale \in BOOLEAN :
          /\ infile = sc.infile
          /\ coords = co.coords
          /\ output = co.output
          /\ disk = InitialDisk(sc, co, stale)
    /\ debug \in BOOLEAN
    /\ aperture \in Apertures
    /\ plot_flag \in BOOLEAN
    /\ pc = "resolve"
    /\ err = ""
    /\ image_cubes = <<>>
    /\ tmp_coords = <<>>
    /\ i = 0
    /\ j = 0
    /\ ap = NoAp
    /\ img = NoImg
    /\ imghdr = NoHdr
    /\ nom_aper = 0
    /\ phot_data = <<>>
    /\ total_phot_data = <<>>
    /\ img_sec = <<>>
    /\ engine_in = <<>>
    /\ engine_out = <<>>
    /\ coord_writes = 0

\* an exception leaves process(): nothing catches it
Raise(e) == pc' = "error" /\ err' = e

\* lines 153-169
Resolve ==
    /\ pc = "resolve"
    /\ IF infile = <<>>
       THEN Raise("IndexError") /\ UNCHANGED image_cubes
       ELSE IF infile[1] = "@"
            THEN IF ~Exists(disk, Tail(infile))
                 THEN Raise("IOError: list file") /\ UNCHANGED image_cubes
                 ELSE /\ image_cubes' = ListCubes(disk[Tail(infile)].data)
                      /\ pc' = "coords"
                      /\ UNCHANGED err
            ELSE /\ image_cubes' = Split(infile, ",")
                 /\ pc' = "coords"
                 /\ UNCHANGED err
    /\ UNCHANGED <<args, disk, tmp_coords, i, j, cube_locals, phot_data,
                   total_phot_data, img_sec, history>>

\* lines 171-184; iraf.copy onto a file that exists overwrites it or fails,
\* as IRAF's clobber setting has it
CopyCoords ==
    /\ pc = "coords"
    /\ IF ~Exists(disk, coords)
       THEN Raise("IOError: coordinate file") /\ UNCHANGED <<disk, tmp_coords>>
       ELSE /\ tmp_coords' = TmpCoords(coords)
            /\ \/ /\ disk' = Write(disk, TmpCoords(coords), disk[coords])
                  /\ pc' = "cube"
                  /\ UNCHANGED err
               \/ /\ Exists(disk, TmpCoords(coords))
                  /\ Raise("IrafError")
                  /\ UNCHANGED disk
    /\ total_phot_data' = <<>>
    /\ img_sec' = <<>>
    /\ i' = 0
    /\ UNCHANGED <<args, image_cubes, j, cube_locals, phot_data, history>>

\* lines 185-226: the head of the cube loop's body
CubeStart ==
    /\ pc = "cube"
    /\ i < Len(image_cubes)
    /\ LET sci_file == image_cubes[i + 1]
       IN  IF ~Exists(disk, sci_file)
           THEN Raise("IOError: FITS image") /\ UNCHANGED <<cube_locals, phot_data, j>>
           ELSE IF disk[sci_file].kind # "cube"
           THEN Raise("IOError: not a FITS image") /\ UNCHANGED <<cube_locals, phot_data, j>>
           ELSE /\ ap' = Aperphot(disk, sci_file)
                /\ img' = fitsread(disk, sci_file)
                /\ imghdr' = IF i = 0 THEN disk[sci_file].data ELSE imghdr
                /\ nom_aper' = IF i = 0
                               THEN (IF aperture # <<>> THEN FloatOf(aperture) ELSE daocog)
                               ELSE nom_aper
                /\ phot_data' = Zeros(disk[sci_file].data.nframes)
                /\ j' = 0
                /\ pc' = "frame"
                /\ UNCHANGED err
    /\ UNCHANGED <<args, disk, image_cubes, tmp_coords, i, total_phot_data,
                   img_sec, history>>

\* lines 227-231: ap.daophot(j+1, tmp_coords, outfile, nom_aper) measures
\* frame j from the coordinates it reads in tmp_coords and leaves its phot
\* file, or fails
EngineCall ==
    /\ pc = "frame"
    /\ j < ap.nframes
    /\ \/ /\ Exists(disk, tmp_coords)
          /\ \E lines \in EngineOutputs :
                /\ disk' = Write(disk, PhotOutfile(ap.sci_file, j),
                                 [kind |-> "phot", data |-> lines])
                /\ engine_out' = Append(engine_out, [cube |-> i, frame |-> j, lines |-> lines])
          /\ engine_in' = Append(engine_in, disk[tmp_coords].data)
          /\ pc' = "record"
          /\ UNCHANGED <<err, coord_writes>>
       \/ /\ Raise("engine failure")
          /\ UNCHANGED <<disk, history>>
    /\ UNCHANGED <<args, image_cubes, tmp_coords, i, j, cube_locals, phot_data,
                   total_phot_data, img_sec>>

\* lines 232-265: the centroid goes to the scratch file, then the record is
\* parsed and the image section cut
FrameRecord ==
    /\ pc = "record"
    /\ LET outfile == PhotOutfile(ap.sci_file, j)
       IN  IF ~DumpOk(disk, outfile)
           THEN Raise("IndexError") /\ UNCHANGED <<disk, phot_data, img_sec, j, coord_writes>>
           ELSE LET objcen == dump(disk, outfile, CenFields)
                    aperphot_data == dump(disk, outfile, Fields)
                IN  /\ disk' = Write(disk, tmp_coords, [kind |-> "coords", data |-> <<objcen>>])
                    /\ coord_writes' = coord_writes + 1
                    /\ IF ~ParseOk(aperphot_data)
                       THEN /\ Raise("ValueError")
                            /\ phot_data' = [phot_data EXCEPT ![j + 1] =
                                  PhotRecordUpTo(aperphot_data, ap, j, FirstBad(aperphot_data))]
                            /\ UNCHANGED <<img_sec, j>>
                       ELSE LET rec == PhotRecord(aperphot_data, ap, j)
                            IN  /\ phot_data' = [phot_data EXCEPT ![j + 1] = rec]
                                /\ img_sec' = Append(img_sec, Cutout(img, rec, j))
                                /\ j' = j + 1
                                /\ pc' = "frame"
                                /\ UNCHANGED err
    /\ UNCHANGED <<args, image_cubes, tmp_coords, i, cube_locals, total_phot_data,
                   engine_in, engine_out>>

\* lines 268-300: the tail of the cube loop's body
CubeEnd ==
    /\ pc = "frame"
    /\ j >= ap.nframes
    /\ total_phot_data' = AppendCube(total_phot_data, phot_data)
    /\ IF debug
       THEN IF plot_flag /\ phot_data = <<>>
            THEN /\ Raise("IndexError")
                 /\ disk' = SaveDebug(disk, output, coords, phot_data, ap, FALSE)
                 /\ UNCHANGED i
            ELSE /\ disk' = SaveDebug(disk, output, coords, phot_data, ap, plot_flag)
                 /\ i' = i + 1
                 /\ pc' = "cube"
                 /\ UNCHANGED err
       ELSE /\ disk' = Remove(disk, PhotFiles(disk, PathSplit(ap.sci_file)[1]))
            /\ i' = i + 1
            /\ pc' = "cube"
            /\ UNCHANGED err
    /\ UNCHANGED <<args, image_cubes, tmp_coords, j, cube_locals, phot_data,
                   img_sec, history>>

\* lines 302-323
Finish ==
    /\ pc = "cube"
    /\ i >= Len(image_cubes)
    /\ IF total_phot_data = <<>>
       THEN Raise("ValueError") /\ UNCHANGED disk
       ELSE /\ disk' = SaveTotal(disk, coords, total_phot_data, img_sec, imghdr, tmp_coords)
            /\ pc' = "done"
            /\ UNCHANGED err
    /\ UNCHANGED <<args, image_cubes, tmp_coords, i, j, cube_locals, phot_data,
                   total_phot_data, img_sec, history>>

Next ==
    \/ Resolve
    \/ CopyCoords
    \/ CubeStart
    \/ EngineCall
    \/ FrameRecord
    \/ CubeEnd
    \/ Finish

Spec == Init /\ [][Next]_vars

-----------------------------------------------------------------------------
(* The terms of the properties *)

\* the centroid tokens of the measured object in what an engine call left
Reported(e) == <<e.lines[Len(e.lines)].XCEN, e.lines[Len(e.lines)].YCEN>>

\* the magnitude error token of the measured object
ReportedMerr(e) == e.lines[Len(e.lines)].MERR

\* the engine calls of the frames 0..j-1 of the current cube, at pc = "frame"
CallOfFrame(n) == engine_out[Len(engine_out) - j + n]

\* a file this run produced as a result: a record array, a plot, the cutouts
IsResultFile(d, p) == d[p].kind \in {"npy", "png", "fits"}

RECURSIVE FramesOf(_, _, _)
\* the frames of the cubes from the c-th on, cube by cube, frame by frame
FramesOf(d, cubes, c) ==
    IF c > Len(cubes) THEN <<>>
    ELSE [f \in 1..d[cubes[c]].data.nframes |-> [cube |-> c - 1, frame |-> f - 1]]
         \o FramesOf(d, cubes, c + 1)

NotEmpty(s) == s # <<>>

\* the run has taken its scratch copy of the coordinate file
CopyMade == tmp_coords # <<>> /\ err # "IrafError"

\* the names a specifier stands for: the non-blank lines of the list file, or
\* the comma separated parts
NamedCubes ==
    IF infile[1] = "@"
    THEN SelectSeq(Split(disk[Tail(infile)].data, "\n"), NotEmpty)
    ELSE Split(infile, ",")

-----------------------------------------------------------------------------
(* Properties *)

\* C1: when a cube named in a list file does not exist, the run fails with
\* the missing-file error before any cube is processed: no frame has been
\* handed to the engine and the scratch coordinate file has not been written.
C1_MissingCubeFailsBeforeProcessing ==
    (pc = "error" /\ err = "IOError: FITS image" /\ infile[1] = "@")
        => (engine_in = <<>> /\ ~Exists(disk, TmpCoords(coords)))

\* C2: a run that has ended with an error has written no partial output: no
\* record array, plot or cutout file of this run is on disk.
C2_NoPartialOutputOnError ==
    pc = "error" => \A p \in DOMAIN disk : ~IsResultFile(disk, p)

\* C3: once a run that made the scratch copy has ended, normally or with an
\* error, the scratch coordinate file no longer exists.
C3_ScratchRemovedAtEveryEnd ==
    (pc \in {"done", "error"} /\ CopyMade) => ~Exists(disk, tmp_coords)

\* C4: the first engine call reads the user's initial coordinates, every
\* later call reads exactly the centroid the engine reported for the frame
\* processed just before, the scratch file is written exactly once between
\* two engine calls, and it holds the last reported centroid whenever the
\* next frame or cube is about to start.
C4_CentroidTracking ==
    /\ Len(engine_in) = Len(engine_out)
    /\ engine_in # <<>> => engine_in[1] = InitialCoords.data
    /\ \A k \in 2..Len(engine_in) : engine_in[k] = <<Reported(engine_out[k - 1])>>
    /\ coord_writes \in {Len(engine_in) - 1, Len(engine_in)}
    /\ pc = "record" => coord_writes = Len(engine_in) - 1
    /\ pc \in {"frame", "cube"} =>
          /\ coord_writes = Len(engine_in)
          /\ engine_out # <<>> =>
                disk[tmp_coords].data = <<Reported(engine_out[Len(engine_out)])>>

\* C4's case: the first frame of a second cube has been handed to the engine
\* after a first cube of several frames.
C4_Witness ==
    /\ pc = "record"
    /\ i = 1
    /\ j = 0
    /\ Len(engine_in) >= 3
    /\ engine_in[Len(engine_in)] # InitialCoords.data

\* C5: after a completed run the aggregate array has one row per frame of
\* every cube, in cube order then frame order: row k is the record of the
\* k-th frame of that order (its time stamp and its centroid are that
\* frame's).
C5_AggregateOrder ==
    pc = "done" =>
        LET p == TotalOutfile(coords)
            frames == FramesOf(disk, image_cubes, 1)
        IN  /\ Exists(disk, p)
            /\ disk[p].kind = "npy"
            /\ Len(disk[p].data) = Len(frames)
            /\ Len(engine_out) = Len(frames)
            /\ \A k \in 1..Len(frames) :
                  LET hdr == disk[image_cubes[frames[k].cube + 1]].data
                  IN  /\ disk[p].data[k].DATETIME = hdr.start + frames[k].frame * hdr.kintime
                      /\ engine_out[k].cube = frames[k].cube
                      /\ engine_out[k].frame = frames[k].frame
                      /\ disk[p].data[k].XCEN = FloatOf(Reported(engine_out[k])[1])

\* C5's case: a run over two cubes, of MaxFrames frames and of one, is done.
C5_Witness ==
    /\ pc = "done"
    /\ Len(image_cubes) = 2
    /\ Exists(disk, TotalOutfile(coords))
    /\ Len(disk[TotalOutfile(coords)].data) = MaxFrames + 1

\* C6: the cutout of every frame whose centroid lies at least 26 pixels
\* inside every edge is 51 pixels wide and high and centred on the truncated
\* centroid; there is one cutout per processed frame, in order.
C6_CutoutIs51Square ==
    /\ Len(img_sec) <= Len(engine_out)
    /\ \A k \in 1..Len(img_sec) :
          LET x == Trunc(FloatOf(Reported(engine_out[k])[1]))
              y == Trunc(FloatOf(Reported(engine_out[k])[2]))
              c == img_sec[k]
          IN  /\ c.frame = engine_out[k].frame
              /\ c.name = image_cubes[engine_out[k].cube + 1]
              /\ (x >= 26 /\ x <= ImgSize - 26 /\ y >= 26 /\ y <= ImgSize - 26) =>
                    /\ c.cols[2] - c.cols[1] = 51
                    /\ c.rows[2] - c.rows[1] = 51
                    /\ c.cols[1] + 25 = x
                    /\ c.rows[1] + 25 = y

\* C7: in diagnostic mode, after a completed run, the record array of every
\* cube is in a file on disk.
C7_EveryCubeArrayPersisted ==
    (pc = "done" /\ debug) =>
        \A c \in 1..Len(total_phot_data) :
            \E p \in DOMAIN disk :
                disk[p].kind = "npy" /\ disk[p].data = total_phot_data[c]

\* C8 as amended: an "INDEF" magnitude error token gives MERR = -10 and no
\* failure; a numeric token gives MERR the token's value (so -10 only for a
\* token that denotes -10); "INDEF" in another field ends the run with an
\* error, and the frame gets no cutout and its cube no array.
C8_MerrSentinel ==
    /\ pc = "frame" =>
          \A n \in 1..j :
              LET tok == ReportedMerr(CallOfFrame(n))
              IN  /\ tok = TokIndef => phot_data[n].MERR = -10 * 10
                  /\ tok # TokIndef => IsFloatLit(tok) /\ phot_data[n].MERR = FloatOf(tok)
    /\ (engine_out # <<>> /\ pc # "record") =>
          LET e == engine_out[Len(engine_out)]
              row == e.lines[Len(e.lines)]
          IN  (Len(e.lines) >= 2 /\ \E f \in DOMAIN row : f # "MERR" /\ row[f] = TokIndef) =>
                  /\ pc = "error"
                  /\ err = "ValueError"
                  /\ Len(img_sec) = Len(engine_out) - 1
                  /\ Len(total_phot_data) = e.cube

\* C8's case: a frame whose magnitude error the engine gave as "INDEF" has
\* its record, with MERR = -10.
C8_Witness ==
    /\ pc = "frame"
    /\ j >= 1
    /\ ReportedMerr(CallOfFrame(j)) = TokIndef
    /\ phot_data[j].MERR = -10 * 10

\* C8 as stated: MERR is -10 exactly when the magnitude error token is
\* "INDEF".
C8_SentinelOnlyForIndef ==
    pc = "frame" =>
        \A n \in 1..j :
            (phot_data[n].MERR = -10 * 10) <=> (ReportedMerr(CallOfFrame(n)) = TokIndef)

\* C9: the resolved list is not empty and holds, in order, every name of the
\* specifier: the list file's lines without the blank ones, or the comma
\* separated parts.
C9_ResolverKeepsEveryPath ==
    pc = "coords" => (image_cubes # <<>> /\ image_cubes = NamedCubes)

\* C10: the user's coordinate file is never mutated: once the run has taken
\* its copy, the file exists with the content it had at the start.
C10_CoordsNeverMutated ==
    CopyMade =>
        /\ Exists(disk, coords)
        /\ disk[coords].kind = "coords"
        /\ disk[coords].data = InitialCoords.data

====
